---- MODULE Spec2Model ----
(***************************************************************************)
(* Model of the SmartAgent frontend: the dataset normalizer                *)
(* (normalizeDatasets, coerceArray, collectSources), the layout renderer   *)
(* (DynamicRenderer, resolveData, ProductTable, SalesChart) and the        *)
(* request lifecycle of App.handleSend (event stream, single-shot          *)
(* fallback, finalize, startup restore).                                   *)
(***************************************************************************)
EXTENDS Integers, Sequences, FiniteSets, TLC

(***************************************************************************)
(* Bounds of the model.                                                    *)
(***************************************************************************)
\* longest row array drawn for a payload
MaxLen == 1
\* most children of a Page node
MaxChildren == 2
\* most requests (accepted handleSend calls) of a run
MaxReq == 2
\* most progress events delivered to listeners in a run
MaxProgress == 1
\* most fallbackFetch calls counted for one request
MaxPosts == 2

(***************************************************************************)
(* JavaScript values.  Every value is a record [k, s]: k is the tag (for   *)
(* an opaque row record or an object entry, its name), s the sequence of   *)
(* contained values.  An object is the sequence of its entries in          *)
(* insertion order, an entry is <<key, value>> as [k |-> key, s |-> <<v>>].*)
(* Property names are ordinary names (not members of Object.prototype).    *)
(***************************************************************************)
Val(k, s) == [k |-> k, s |-> s]
Undefined == Val("undefined", <<>>)
Null == Val("null", <<>>)
Zero == Val("zero", <<>>)
Num == Val("number", <<>>)
Row(id) == Val(id, <<>>)
Arr(items) == Val("array", items)
Entry(key, v) == Val(key, <<v>>)
Obj(entries) == Val("object", entries)

IsArray(v) == v.k = "array"
\* !v is true of undefined, null, 0 (and "", NaN, false); arrays and objects are truthy
Truthy(v) == v.k \notin {"undefined", "null", "zero"}
\* typeof v === "object" for a truthy v: arrays, objects, row records
IsObject(v) == v.k \notin {"undefined", "null", "zero", "number"}

\* Object.keys, Object.values, obj[key], obj[key] = v
ObjKeys(o) == [i \in 1..Len(o.s) |-> o.s[i].k]
ObjValues(o) == [i \in 1..Len(o.s) |-> o.s[i].s[1]]
HasOwn(o, key) == \E i \in 1..Len(o.s) : o.s[i].k = key
ObjGet(o, key) ==
  IF HasOwn(o, key)
    THEN o.s[CHOOSE i \in 1..Len(o.s) : o.s[i].k = key].s[1]
    ELSE Undefined
ObjSet(o, key, v) ==
  IF HasOwn(o, key)
    THEN Obj([i \in 1..Len(o.s) |-> IF o.s[i].k = key THEN Entry(key, v) ELSE o.s[i]])
    ELSE Obj(Append(o.s, Entry(key, v)))

(***************************************************************************)
(* coerceArray                                                             *)
(***************************************************************************)
FindArray_Last(values) ==
  IF \E i \in 1..Len(values) : IsArray(values[i])
    THEN values[CHOOSE i \in 1..Len(values) :
                  /\ IsArray(values[i])
                  /\ \A j \in (i + 1)..Len(values) : ~IsArray(values[j])]
    ELSE Undefined

\* values.find((v) => Array.isArray(v)): the first array in forward order
FindArray(values) ==
  IF \E i \in 1..Len(values) : IsArray(values[i])
    THEN values[CHOOSE i \in 1..Len(values) :
                  /\ IsArray(values[i])
                  /\ \A j \in 1..(i - 1) : ~IsArray(values[j])]
    ELSE Undefined

coerceArray(value) ==
  IF IsArray(value) THEN value
  ELSE IF ~Truthy(value) THEN Arr(<<>>)
  ELSE IF IsObject(value)
    THEN IF Truthy(FindArray(ObjValues(value)))
           THEN FindArray(ObjValues(value))
           ELSE Arr(ObjValues(value))
  ELSE Arr(<<>>)

(***************************************************************************)
(* Layout trees.  A node is [type, source, children]; NoSource stands for  *)
(* an absent (or empty) source, children is <<>> when absent.  NullLayout  *)
(* is a null or undefined layout; a node of type "array" is a JavaScript   *)
(* array of nodes (its items are its children, it has no source).  kids    *)
(* tells what the children field is: "list" when it is an array or absent, *)
(* "other" when it is present and not an array (children is then <<>>, as  *)
(* Array.isArray(node.children) fails and nothing below it is visited).    *)
(***************************************************************************)
NoSource == ""
Node(type, source, children) ==
  [type |-> type, source |-> source, children |-> children, kids |-> "list"]
BadChildren(type, source) ==
  [type |-> type, source |-> source, children |-> <<>>, kids |-> "other"]
NullLayout == Node("null", NoSource, <<>>)

\* Set.add in insertion order
SetAdd(acc, x) == IF \E i \in 1..Len(acc) : acc[i] = x THEN acc ELSE Append(acc, x)

RECURSIVE collectSources(_, _)
RECURSIVE collectChildren(_, _, _)
collectChildren(children, i, acc) ==
  IF i > Len(children) THEN acc
  ELSE collectChildren(children, i + 1, collectSources(children[i], acc))
collectSources(node, acc) ==
  IF node.type = "null" THEN acc
  ELSE collectChildren(node.children, 1,
         IF node.source # NoSource THEN SetAdd(acc, node.source) ELSE acc)

(***************************************************************************)
(* normalizeDatasets                                                       *)
(***************************************************************************)
\* lines 41-48: the preliminary mapping
Preliminary(incoming) ==
  IF IsArray(incoming) THEN Obj(<<Entry("data", coerceArray(incoming))>>)
  ELSE IF Truthy(incoming) /\ IsObject(incoming)
    THEN Obj([i \in 1..Len(incoming.s) |->
                Entry(incoming.s[i].k, coerceArray(incoming.s[i].s[1]))])
  ELSE Obj(<<>>)

AliasData_Skipped(normalized, sources) == normalized

\* lines 51-53: alias the single source to the "data" entry
AliasData(normalized, sources) ==
  IF /\ Truthy(ObjGet(normalized, "data"))
     /\ Len(sources) = 1
     /\ ~Truthy(ObjGet(normalized, sources[1]))
    THEN ObjSet(normalized, sources[1], ObjGet(normalized, "data"))
    ELSE normalized

ApplyFallback_Overwrites(normalized, sources, fallbackArray) ==
  IF Len(fallbackArray.s) # 0
    THEN IF Len(sources) = 0
           THEN ObjSet(normalized, "data", fallbackArray)
         ELSE IF Len(sources) = 1
           THEN ObjSet(normalized, sources[1], fallbackArray)
         ELSE IF Len(ObjKeys(normalized)) = 0
           THEN ObjSet(normalized, "data", fallbackArray)
         ELSE normalized
    ELSE normalized

\* lines 54-62: the legacy fallback
ApplyFallback(normalized, sources, fallbackArray) ==
  IF Len(fallbackArray.s) # 0
    THEN IF Len(sources) = 0
           THEN ObjSet(normalized, "data", fallbackArray)
         ELSE IF Len(sources) = 1 /\ ~Truthy(ObjGet(normalized, sources[1]))
           THEN ObjSet(normalized, sources[1], fallbackArray)
         ELSE IF Len(ObjKeys(normalized)) = 0
           THEN ObjSet(normalized, "data", fallbackArray)
         ELSE normalized
    ELSE normalized

FillSources_Skipped(normalized, sources, i) == normalized

\* lines 63-65: every source still without an entry gets []
RECURSIVE FillSources(_, _, _)
FillSources(normalized, sources, i) ==
  IF i > Len(sources) THEN normalized
  ELSE FillSources(
         IF ~Truthy(ObjGet(normalized, sources[i]))
           THEN ObjSet(normalized, sources[i], Arr(<<>>))
           ELSE normalized,
         sources, i + 1)

DefaultData_Skipped(normalized) == normalized

\* line 66
DefaultData(normalized) ==
  IF Len(ObjKeys(normalized)) = 0
    THEN ObjSet(normalized, "data", Arr(<<>>))
    ELSE normalized

normalizeDatasets(layout, incoming, fallback) ==
  LET sources == collectSources(layout, <<>>)
      fallbackArray == coerceArray(fallback)
  IN DefaultData(
       FillSources(
         ApplyFallback(AliasData(Preliminary(incoming), sources), sources, fallbackArray),
         sources, 1))

(***************************************************************************)
(* DynamicRenderer and the views it mounts.  A view is [v, text, data,     *)
(* kids]: v is the element ("div", "p", "table", "BarChart"), "null" for   *)
(* no view, "TypeError" when rendering throws (no error boundary is        *)
(* mounted, so an error thrown by any component ends the whole render).    *)
(***************************************************************************)
View(v, text, data, kids) == [v |-> v, text |-> text, data |-> data, kids |-> kids]
NullView == View("null", "", Undefined, <<>>)
Raised == View("TypeError", "", Undefined, <<>>)

resolveData_DataFirst(dsets, source) ==
  IF ~Truthy(dsets) THEN Arr(<<>>)
  ELSE IF Truthy(ObjGet(dsets, "data")) THEN ObjGet(dsets, "data")
  ELSE IF source # NoSource /\ Truthy(ObjGet(dsets, source)) THEN ObjGet(dsets, source)
  ELSE IF Len(ObjKeys(dsets)) > 0 THEN ObjValues(dsets)[1]
  ELSE Arr(<<>>)

\* resolveData: the entry of the source, else the "data" entry, else the
\* entry of the first key, else []
resolveData(dsets, source) ==
  IF ~Truthy(dsets) THEN Arr(<<>>)
  ELSE IF source # NoSource /\ Truthy(ObjGet(dsets, source)) THEN ObjGet(dsets, source)
  ELSE IF Truthy(ObjGet(dsets, "data")) THEN ObjGet(dsets, "data")
  ELSE IF Len(ObjKeys(dsets)) > 0 THEN ObjValues(dsets)[1]
  ELSE Arr(<<>>)

\* Object.keys(row) throws a TypeError for null and undefined, as does row[col]
NotCoercible(row) == row.k \in {"undefined", "null"}
\* Object.keys(row) is non-empty: a row record has fields, a number has no
\* keys, an array or an object has those of its items or entries
HasColumns(row) ==
  IF row.k \in {"number", "zero"} THEN FALSE
  ELSE IF row.k \in {"array", "object"} THEN Len(row.s) > 0
  ELSE TRUE

\* ProductTable: "No records found." for no rows, else a grid whose columns
\* are the keys of the first row
ProductTable(data) ==
  LET rows == IF IsArray(data) THEN data.s ELSE <<>> IN
    IF Len(rows) = 0 THEN View("p", "No records found.", Arr(<<>>), <<>>)
    ELSE IF NotCoercible(rows[1]) THEN Raised
    ELSE IF HasColumns(rows[1]) /\ \E i \in 1..Len(rows) : NotCoercible(rows[i])
      THEN Raised
    ELSE View("table", "", Arr(rows), <<>>)

\* SalesChart: "No sales data available." unless data is a non-empty array
SalesChart(data) ==
  IF ~IsArray(data) \/ Len(data.s) = 0
    THEN View("p", "No sales data available.", Arr(<<>>), <<>>)
    ELSE View("BarChart", "", data, <<>>)

\* {layout.type} in the placeholder: an array has no type field
TypeText(layout) == IF layout.type = "array" THEN "" ELSE layout.type

\* layout.children?.map(...) calls map on whatever children is; the content
\* of a Text node is not modelled
RECURSIVE DynamicRenderer(_, _)
DynamicRenderer(layout, dsets) ==
  IF layout.type = "null" THEN NullView
  ELSE IF layout.type = "Page"
    THEN IF layout.kids = "other" THEN Raised
         ELSE LET kids == [i \in 1..Len(layout.children) |->
                            DynamicRenderer(layout.children[i], dsets)]
              IN IF \E i \in 1..Len(kids) : kids[i].v = "TypeError"
                   THEN Raised
                   ELSE View("div", "", Undefined, kids)
  ELSE IF layout.type = "Table" THEN ProductTable(resolveData(dsets, layout.source))
  ELSE IF layout.type = "Chart" THEN SalesChart(resolveData(dsets, layout.source))
  ELSE IF layout.type = "Text" THEN View("p", "", Undefined, <<>>)
  ELSE View("p", "Unknown layout type: " \o TypeText(layout), Undefined, <<>>)

(***************************************************************************)
(* Inputs of the normalizer.                                               *)
(***************************************************************************)
SourceNames == {"data", "sales", "products"}

SeqsUpTo(S, n) == UNION {[1..m -> S] : m \in 0..n}

\* rows sent under "datasets" and rows sent under "data" are different records
DatasetArrays == {Arr(s) : s \in SeqsUpTo({Row("r1")}, MaxLen)}
DataArrays == {Arr(s) : s \in SeqsUpTo({Row("r2")}, MaxLen)}

\* objects wrapping rows: with one nested array, with two, with none
NestedObjects ==
  { Obj(<<Entry("count", Num), Entry("rows", Arr(<<Row("r1")>>))>>),
    Obj(<<Entry("a", Arr(<<Row("r3")>>)), Entry("b", Arr(<<Row("r1")>>))>>),
    Obj(<<Entry("x", Row("r1")), Entry("y", Null)>>) }

EntryValues == DatasetArrays \cup {Null, Num} \cup NestedObjects

\* the "datasets" key of a response: absent, null, {}, a bare array, a mapping
Bundles ==
  {Undefined, Null, Obj(<<>>)} \cup DatasetArrays
  \cup {Obj(<<Entry(k, v)>>) : k \in SourceNames, v \in EntryValues}
  \cup {Obj(<<Entry("data", v), Entry("sales", w)>>) : v \in DatasetArrays, w \in DatasetArrays}
  \cup {Obj(<<Entry("sales", v), Entry("products", w)>>) : v \in DatasetArrays, w \in DatasetArrays}

\* the "data" key of a response
Fallbacks ==
  {Undefined, Null, Zero, Obj(<<Entry("rows", Arr(<<Row("r2")>>))>>)} \cup DataArrays

Leaves ==
  {Node("Table", s, <<>>) : s \in SourceNames \cup {NoSource}}
  \cup {Node("Chart", "sales", <<>>), Node("Text", NoSource, <<>>),
        Node("Text", "products", <<>>), Node("Gauge", NoSource, <<>>)}

Pages == {Node("Page", NoSource, c) : c \in SeqsUpTo(Leaves, MaxChildren)}

Layouts ==
  {NullLayout} \cup Leaves \cup Pages
  \cup {Node("array", NoSource, <<l>>) : l \in Leaves}
  \cup {Node("Page", NoSource, <<Node("Page", NoSource, <<l>>), Node("Table", "sales", <<>>)>>) :
          l \in Leaves}

(***************************************************************************)
(* The App component.                                                      *)
(***************************************************************************)
\* response bodies of /ai_layout_stream 'final', /ai_layout and /last_view
Payloads ==
  << [layout |-> Node("Table", "sales", <<>>),
      datasets |-> Obj(<<Entry("sales", Arr(<<Row("r1")>>))>>),
      data |-> Undefined,
      trace |-> <<"queried sales">>],
     [layout |-> Node("Page", NoSource,
                      <<Node("Table", "products", <<>>), Node("Chart", "sales", <<>>)>>),
      datasets |-> Undefined,
      data |-> Arr(<<Row("r2")>>),
      trace |-> <<>>],
     [layout |-> NullLayout, datasets |-> Undefined, data |-> Undefined, trace |-> <<>>] >>

PayloadIds == 1..Len(Payloads)
\* a body that JSON.parse rejects (or that parses to null)
Unparseable == 0
Bodies == PayloadIds \cup {Unparseable}

\* the text the user has typed when Send is pressed
Inputs == {" ", "show sales"}
Trim(txt) == IF txt = " " THEN "" ELSE txt

ProgressTypes == {"thinking", "tool", "tool_result", "model", "data"}
\* body of a progress event: {text: line}, {text: ""}, not JSON
ProgressBodies == {"line", "empty", "bad"}

\* messages returned by /chat_history (already filtered and mapped, lines 115-131)
Histories ==
  { << [role |-> "user", content |-> "earlier", thinking |-> <<>>, logs |-> <<>>,
        timestamp |-> 0],
       [role |-> "assistant", content |-> "Showing: Table", thinking |-> <<>>,
        logs |-> <<>>, timestamp |-> 0] >> }

FailedText == "Streaming failed and fallback also failed. Please retry."

Reqs == 1..MaxReq

VARIABLES
  nLayout, nIncoming, nFallback, nResult, nPc,
  nCoerced,    \* what coerceArray returned for nFallback
  nSources,    \* what collectSources returned for nLayout, in insertion order
  nView,       \* what DynamicRenderer returned for nLayout and nResult
  layout,     \* useState(null), line 71
  datasets,    \* useState({}), line 72
  messages,    \* useState([]), line 73
  loading,     \* useState(false), line 75
  error,       \* useState(""), line 76
  esRef,       \* useRef(null), line 77: 0 or the request whose stream it holds
  nreq,        \* handleSend calls that passed the empty-message return
  stream,      \* readyState of each request's EventSource: none, open, closed
  post,        \* each request's POST /ai_layout: none, pending, resolved, rejected
  postCount,   \* number of fallbackFetch calls of each request
  errored,     \* the request's stream raised onerror or could not be constructed
  outcome,     \* how each request ended: none, finalized, failed
  nprogress,   \* progress events handled by listeners so far
  history,     \* GET /chat_history: pending, settled
  lastView,    \* GET /last_view: pending, settled
  lastEvent    \* the step that led to this state

nvars == <<nLayout, nIncoming, nFallback, nResult, nPc, nCoerced, nSources, nView>>
view == <<layout, datasets, messages, loading, error>>
net == <<esRef, nreq, stream, post, postCount, errored, outcome, nprogress>>
startup == <<history, lastView>>
avars == <<view, net, startup, lastEvent>>
vars == <<nvars, avars>>

Event(kind, req) == [kind |-> kind, req |-> req]

\* the component after construction, the startup fetches issued (lines 71-78, 99-153)
AppInit ==
  /\ layout = NullLayout
  /\ datasets = Obj(<<>>)
  /\ messages = <<>>
  /\ loading = FALSE
  /\ error = ""
  /\ esRef = 0
  /\ nreq = 0
  /\ stream = [r \in Reqs |-> "none"]
  /\ post = [r \in Reqs |-> "none"]
  /\ postCount = [r \in Reqs |-> 0]
  /\ errored = [r \in Reqs |-> FALSE]
  /\ outcome = [r \in Reqs |-> "none"]
  /\ nprogress = 0
  /\ history = "pending"
  /\ lastView = "pending"
  /\ lastEvent = Event("init", 0)

NormIdle ==
  /\ nLayout = NullLayout
  /\ nIncoming = Undefined
  /\ nFallback = Undefined
  /\ nResult = Obj(<<>>)
  /\ nPc = "idle"
  /\ nCoerced = Arr(<<>>)
  /\ nSources = <<>>
  /\ nView = NullView

(***************************************************************************)
(* The normalizer applied to drawn inputs.                                 *)
(***************************************************************************)
NormInit ==
  /\ nLayout \in Layouts
  /\ nIncoming \in Bundles
  /\ nFallback \in Fallbacks
  /\ nResult = Obj(<<>>)
  /\ nPc = "start"
  /\ nCoerced = Arr(<<>>)
  /\ nSources = <<>>
  /\ nView = NullView
  /\ AppInit

Normalize ==
  /\ nPc = "start"
  /\ nResult' = normalizeDatasets(nLayout, nIncoming, nFallback)
  /\ nPc' = "done"
  /\ nSources' = collectSources(nLayout, <<>>)
  /\ nCoerced' = coerceArray(nFallback)
  /\ UNCHANGED <<nLayout, nIncoming, nFallback, nView, avars>>

NormNext == Normalize

SpecNorm == NormInit /\ [][NormNext]_vars

(***************************************************************************)
(* The normalizer and the renderer applied to drawn responses: the layout  *)
(* is rendered with the mapping normalizeDatasets returned for it, as App  *)
(* does (lines 362-366).                                                   *)
(***************************************************************************)
\* layouts as a response may carry them, also with a children field that is
\* not an array
RenderLayouts ==
  Layouts
  \cup {BadChildren("Page", NoSource), BadChildren("Table", "sales")}
  \cup {Node("Page", NoSource, <<BadChildren("Page", NoSource), Node("Text", NoSource, <<>>)>>)}

\* bundles whose rows are not all records
RenderBundles ==
  Bundles
  \cup {Obj(<<Entry("sales", Arr(<<Null>>))>>),
        Obj(<<Entry("sales", Arr(<<Row("r1"), Null>>))>>),
        Obj(<<Entry("sales", Arr(<<Num>>))>>)}

RenderFallbacks == Fallbacks \cup NestedObjects \cup {Num}

RenderInit ==
  /\ nLayout \in RenderLayouts
  /\ nIncoming \in RenderBundles
  /\ nFallback \in RenderFallbacks
  /\ nResult = Obj(<<>>)
  /\ nPc = "start"
  /\ nCoerced = Arr(<<>>)
  /\ nSources = <<>>
  /\ nView = NullView
  /\ AppInit

\* <DynamicRenderer layout={layout} datasets={datasets} />
Render ==
  /\ nPc = "done"
  /\ nView' = DynamicRenderer(nLayout, nResult)
  /\ nPc' = "rendered"
  /\ UNCHANGED <<nLayout, nIncoming, nFallback, nResult, nCoerced, nSources, avars>>

RenderNext == Normalize \/ Render

SpecRender == RenderInit /\ [][RenderNext]_vars


(***************************************************************************)
(* Handlers of App.handleSend.  Each returns the state it sets.            *)
(***************************************************************************)
NewMessage(role, content, ts) ==
  [role |-> role, content |-> content, thinking |-> <<>>, logs |-> <<>>, timestamp |-> ts]

Log(type, text) == [type |-> type, text |-> text]

\* nextLayout?.title || nextLayout?.type || "Updated the view." (no node carries a title)
ShowingText(nextLayout) ==
  CASE nextLayout.type = "Page" -> "Showing: Page"
    [] nextLayout.type = "Table" -> "Showing: Table"
    [] nextLayout.type = "Chart" -> "Showing: Chart"
    [] nextLayout.type = "Text" -> "Showing: Text"
    [] nextLayout.type = "Gauge" -> "Showing: Gauge"
    [] OTHER -> "Showing: Updated the view."

\* the last message whose role is assistant, 0 when there is none
LastAssistant(prev) ==
  IF \E i \in 1..Len(prev) : prev[i].role = "assistant"
    THEN CHOOSE i \in 1..Len(prev) :
           /\ prev[i].role = "assistant"
           /\ \A j \in (i + 1)..Len(prev) : prev[j].role # "assistant"
    ELSE 0

\* What an updater returns: the content it sets (KeepContent when it sets
\* none) and the lines it appends to curr.thinking and curr.logs.
KeepContent == "(unchanged)"
Patch(content, thinking, logs) == [content |-> content, thinking |-> thinking, logs |-> logs]

\* { ...next[i], ...updater(next[i]) }
Merge(curr, patch) ==
  [curr EXCEPT !.content = IF patch.content = KeepContent THEN @ ELSE patch.content,
               !.thinking = @ \o patch.thinking,
               !.logs = @ \o patch.logs]

updateLastAssistant(prev, patch) ==
  IF LastAssistant(prev) = 0 THEN prev
  ELSE [prev EXCEPT ![LastAssistant(prev)] = Merge(prev[LastAssistant(prev)], patch)]

finalize_LayoutOnly(nextLayout, normalizedDatasets) ==
  [layout |-> nextLayout,
   datasets |-> datasets,
   messages |-> updateLastAssistant(messages, Patch(ShowingText(nextLayout), <<>>, <<>>)),
   loading |-> FALSE]

finalize(nextLayout, normalizedDatasets) ==
  [layout |-> nextLayout,
   datasets |-> normalizedDatasets,
   messages |-> updateLastAssistant(messages, Patch(ShowingText(nextLayout), <<>>, <<>>)),
   loading |-> FALSE]

\* lines 218-238: the trace of a single-shot response, appended as thinking logs
RECURSIVE AddEntries(_, _, _)
AddEntries(prev, entries, i) ==
  IF i > Len(entries) THEN prev
  ELSE AddEntries(
         updateLastAssistant(prev,
           Patch(KeepContent, <<entries[i]>>, <<Log("thinking", entries[i])>>)),
         entries, i + 1)

ErrorSteps ==
  <<"Attempted streaming via /ai_layout_stream", "Falling back to /ai_layout", "Fallback failed">>

\* lines 239-260: the catch block of fallbackFetch
FallbackFailed_ClearsView ==
  [layout |-> NullLayout,
   datasets |-> Obj(<<>>),
   error |-> FailedText,
   messages |-> updateLastAssistant(messages,
                  Patch("Sorry, streaming failed.", ErrorSteps,
                        [i \in 1..3 |-> Log("thinking", ErrorSteps[i])])),
   loading |-> FALSE]

FallbackFailed ==
  [layout |-> layout,
   datasets |-> datasets,
   error |-> FailedText,
   messages |-> updateLastAssistant(messages,
                  Patch("Sorry, streaming failed.", ErrorSteps,
                        [i \in 1..3 |-> Log("thinking", ErrorSteps[i])])),
   loading |-> FALSE]

\* lines 274-326: the listeners of thinking, tool, tool_result, model, data
ProgressLogged(type, line) ==
  updateLastAssistant(messages,
    Patch(KeepContent, IF type = "thinking" THEN <<line>> ELSE <<>>, <<Log(type, line)>>))

OnProgress_DataApplied(type, body, line) ==
  [layout |-> layout,
   datasets |-> IF type = "data" /\ body = "line"
                  THEN Obj(<<Entry("data", Arr(<<Row("r3")>>))>>) ELSE datasets,
   messages |-> IF body = "line" THEN ProgressLogged(type, line) ELSE messages]

OnProgress(type, body, line) ==
  [layout |-> layout,
   datasets |-> datasets,
   messages |-> IF body = "line" THEN ProgressLogged(type, line) ELSE messages]

\* lines 264-268: close any previous stream
ClosePrevious_Skipped == stream

ClosePrevious ==
  [r \in Reqs |-> IF esRef # 0 /\ r = esRef THEN "closed" ELSE stream[r]]

\* line 345: es.close() in es.onerror
ErrorClose_Skipped(r) == stream

ErrorClose(r) == [stream EXCEPT ![r] = "closed"]

(***************************************************************************)
(* Actions of the App.                                                     *)
(***************************************************************************)
\* handleSend, lines 155-355, with txt in the input; opened tells whether
\* new EventSource(url) returned or threw
handleSend(txt, opened, kind) ==
  /\ nreq < MaxReq
  /\ IF Trim(txt) = ""
       THEN UNCHANGED avars
       ELSE LET r == nreq + 1 IN
            /\ nreq' = r
            /\ error' = ""
            /\ loading' = TRUE
            /\ messages' = messages \o <<NewMessage("user", Trim(txt), r),
                                         NewMessage("assistant", "Working", r)>>
            /\ esRef' = IF opened THEN r ELSE 0
            /\ stream' = [ClosePrevious EXCEPT ![r] = IF opened THEN "open" ELSE "none"]
            /\ post' = [post EXCEPT ![r] = IF opened THEN "none" ELSE "pending"]
            /\ postCount' = [postCount EXCEPT ![r] = IF opened THEN 0 ELSE 1]
            /\ errored' = [errored EXCEPT ![r] = ~opened]
            /\ lastEvent' = Event(kind, r)
            /\ UNCHANGED <<layout, datasets, outcome, nprogress, startup>>
  /\ UNCHANGED nvars

\* the Send button, disabled while loading (lines 410-416)
ClickSend ==
  /\ ~loading
  /\ \E txt \in Inputs, opened \in BOOLEAN : handleSend(txt, opened, "send")

\* Enter in the input field (line 408)
PressEnter ==
  \E txt \in Inputs, opened \in BOOLEAN : handleSend(txt, opened, "send")

\* a progress event dispatched on the open stream of request r
StreamProgress ==
  \E r \in Reqs, type \in ProgressTypes, body \in ProgressBodies :
    /\ stream[r] = "open"
    /\ nprogress < MaxProgress
    /\ nprogress' = nprogress + 1
    /\ LET next == OnProgress(type, body, ToString(r)) IN
         /\ layout' = next.layout
         /\ datasets' = next.datasets
         /\ messages' = next.messages
    /\ lastEvent' = Event("progress", r)
    /\ UNCHANGED <<loading, error, esRef, nreq, stream, post, postCount, errored, outcome, startup, nvars>>

\* a 'final' event arrives for the stream of request r; a closed EventSource
\* dispatches nothing (lines 328-341)
StreamFinal ==
  \E r \in Reqs, body \in Bodies :
    /\ stream[r] \in {"open", "closed"}
    /\ lastEvent' = Event("final", r)
    /\ IF stream[r] = "closed"
         THEN UNCHANGED <<view, esRef, nreq, stream, post, postCount, errored, outcome,
                          nprogress, startup>>
         ELSE /\ IF body = Unparseable
                   THEN UNCHANGED <<view, outcome>>
                   ELSE LET payload == Payloads[body]
                            next == finalize(payload.layout,
                                      normalizeDatasets(payload.layout, payload.datasets,
                                                        payload.data))
                        IN /\ layout' = next.layout
                           /\ datasets' = next.datasets
                           /\ messages' = next.messages
                           /\ loading' = next.loading
                           /\ outcome' = [outcome EXCEPT ![r] = "finalized"]
                           /\ UNCHANGED error
              /\ stream' = [stream EXCEPT ![r] = "closed"]
              /\ esRef' = 0
              /\ UNCHANGED <<nreq, post, postCount, errored, nprogress, startup>>
    /\ UNCHANGED nvars

\* es.onerror of the open stream of request r (lines 343-349)
StreamError ==
  \E r \in Reqs :
    /\ stream[r] = "open"
    /\ postCount[r] < MaxPosts
    /\ stream' = ErrorClose(r)
    /\ esRef' = 0
    /\ errored' = [errored EXCEPT ![r] = TRUE]
    /\ post' = [post EXCEPT ![r] = "pending"]
    /\ postCount' = [postCount EXCEPT ![r] = @ + 1]
    /\ lastEvent' = Event("error", r)
    /\ UNCHANGED <<view, nreq, outcome, nprogress, startup, nvars>>

\* the POST of fallbackFetch resolves with a JSON body (lines 204-238)
PostResolved ==
  \E r \in Reqs, body \in PayloadIds :
    /\ post[r] = "pending"
    /\ LET json == Payloads[body]
           next == finalize(json.layout,
                     normalizeDatasets(json.layout, json.datasets, json.data))
       IN /\ layout' = next.layout
          /\ datasets' = next.datasets
          /\ messages' = AddEntries(next.messages, json.trace, 1)
          /\ loading' = next.loading
    /\ post' = [post EXCEPT ![r] = "resolved"]
    /\ outcome' = [outcome EXCEPT ![r] = "finalized"]
    /\ lastEvent' = Event("postResolved", r)
    /\ UNCHANGED <<error, esRef, nreq, stream, postCount, errored, nprogress,
                   startup, nvars>>

\* the POST is rejected, or its body is not JSON or is null (lines 239-260)
PostRejected ==
  \E r \in Reqs :
    /\ post[r] = "pending"
    /\ LET next == FallbackFailed IN
         /\ layout' = next.layout
         /\ datasets' = next.datasets
         /\ messages' = next.messages
         /\ loading' = next.loading
         /\ error' = next.error
    /\ post' = [post EXCEPT ![r] = "rejected"]
    /\ outcome' = [outcome EXCEPT ![r] = "failed"]
    /\ lastEvent' = Event("postRejected", r)
    /\ UNCHANGED <<esRef, nreq, stream, postCount, errored, nprogress, startup, nvars>>

\* GET /chat_history answers (lines 112-136)
HistoryLoaded ==
  \E msgs \in Histories :
    /\ history = "pending"
    /\ history' = "settled"
    /\ messages' = msgs
    /\ lastEvent' = Event("history", 0)
    /\ UNCHANGED <<layout, datasets, loading, error, net, lastView, nvars>>

HistoryFailed ==
  /\ history = "pending"
  /\ history' = "settled"
  /\ lastEvent' = Event("historyFailed", 0)
  /\ UNCHANGED <<view, net, lastView, nvars>>

\* GET /last_view answers (lines 139-152)
LastViewLoaded ==
  \E body \in PayloadIds :
    /\ lastView = "pending"
    /\ lastView' = "settled"
    /\ LET json == Payloads[body] IN
         IF json.layout # NullLayout
           THEN /\ layout' = json.layout
                /\ datasets' = normalizeDatasets(json.layout, json.datasets, json.data)
           ELSE UNCHANGED <<layout, datasets>>
    /\ lastEvent' = Event("lastView", 0)
    /\ UNCHANGED <<messages, loading, error, net, history, nvars>>

LastViewFailed ==
  /\ lastView = "pending"
  /\ lastView' = "settled"
  /\ lastEvent' = Event("lastViewFailed", 0)
  /\ UNCHANGED <<view, net, history, nvars>>

Init == AppInit /\ NormIdle

Next ==
  \/ ClickSend
  \/ PressEnter
  \/ StreamProgress
  \/ StreamFinal
  \/ StreamError
  \/ PostResolved
  \/ PostRejected
  \/ HistoryLoaded
  \/ HistoryFailed
  \/ LastViewLoaded
  \/ LastViewFailed

Spec == Init /\ [][Next]_vars

(***************************************************************************)
(* Properties of normalizeDatasets, checked under SpecNorm.                *)
(***************************************************************************)
\* the source names that occur anywhere in a layout tree, as a set
RECURSIVE TreeNames(_)
TreeNames(node) ==
  IF node.type = "null" THEN {}
  ELSE (IF node.source # NoSource THEN {node.source} ELSE {})
       \cup UNION {TreeNames(node.children[i]) : i \in 1..Len(node.children)}

\* a payload that carries something: a non-empty array or an object with entries
NonEmptyPayload(v) == v.k \in {"array", "object"} /\ Len(v.s) > 0

\* the entries the "datasets" payload supplies, each coerced to a sequence
Supplied == Preliminary(nIncoming)

\* C1: the mapping returned by normalizeDatasets has an entry for every
\* distinct source name of the tree, and each such entry is a sequence.
C1_EverySourceHasEntry ==
  nPc = "done" =>
    \A s \in TreeNames(nLayout) :
      /\ HasOwn(nResult, s)
      /\ IsArray(ObjGet(nResult, s))

\* C1 witness: two source names, none supplied by the payload, both get [].
C1_Witness ==
  /\ nPc = "done"
  /\ TreeNames(nLayout) = {"sales", "products"}
  /\ nIncoming = Undefined
  /\ ObjGet(nResult, "sales") = Arr(<<>>)
  /\ ObjGet(nResult, "products") = Arr(<<>>)

\* C8 as stated: with both payloads non-empty, no entry supplied by datasets
\* is replaced by the data payload, for any number of source names.
C8_DatasetsNeverReplaced ==
  (nPc = "done" /\ NonEmptyPayload(nIncoming) /\ NonEmptyPayload(nFallback)) =>
    \A i \in 1..Len(Supplied.s) :
      ObjGet(nResult, Supplied.s[i].k) = Supplied.s[i].s[1]

\* C8 amended: with both payloads non-empty and at least one source name in
\* the layout, no entry supplied by datasets is replaced; with no source name
\* the data payload is the "data" entry and the other entries are kept.
C8_DatasetsPrecedence ==
  (nPc = "done" /\ NonEmptyPayload(nIncoming) /\ NonEmptyPayload(nFallback)) =>
    /\ \A i \in 1..Len(Supplied.s) :
         (TreeNames(nLayout) # {} \/ Supplied.s[i].k # "data") =>
           ObjGet(nResult, Supplied.s[i].k) = Supplied.s[i].s[1]
    /\ TreeNames(nLayout) = {} => ObjGet(nResult, "data") = coerceArray(nFallback)

\* C8 witness: the layout's single source is supplied by datasets, data is
\* non-empty, and the supplied entry is the one returned.
C8_Witness ==
  /\ nPc = "done"
  /\ TreeNames(nLayout) = {"sales"}
  /\ nIncoming = Obj(<<Entry("sales", Arr(<<Row("r1")>>))>>)
  /\ nFallback = Arr(<<Row("r2")>>)
  /\ ObjGet(nResult, "sales") = Arr(<<Row("r1")>>)

EntryOf(source) ==
  IF source # NoSource /\ HasOwn(nResult, source) THEN ObjGet(nResult, source) ELSE Arr(<<>>)

\* every Table and Chart view of the tree received exactly the entry of its
\* node's source, and no rows when there is no such entry
RECURSIVE BoundExactly(_, _)
BoundExactly(node, v) ==
  IF node.type \in {"Table", "Chart"}
    THEN /\ v.data = EntryOf(node.source)
         /\ Len(EntryOf(node.source).s) = 0 => v.v = "p"
  ELSE IF node.type = "Page" /\ v.v = "div"
    THEN \A i \in 1..Len(node.children) : BoundExactly(node.children[i], v.kids[i])
  ELSE TRUE

\* C11: a Table or Chart node is bound to exactly datasets[node.source]; with
\* no such entry, or no source, its view receives no rows and is the empty
\* placeholder, never the "data" entry or the first entry of the mapping.
C11_ExactBinding ==
  (nPc = "rendered" /\ nView.v # "TypeError") => BoundExactly(nLayout, nView)

KnownTypes == {"Page", "Table", "Chart", "Text"}

\* the view of a node: non-null for a known type, the placeholder naming the
\* type for any other, and for a Page one view per child, in order
RECURSIVE Rendered(_, _)
Rendered(node, v) ==
  IF node.type = "null" THEN v = NullView
  ELSE IF node.type \in KnownTypes
    THEN /\ v.v \notin {"null", "TypeError"}
         /\ node.type = "Page" =>
              /\ Len(v.kids) = Len(node.children)
              /\ \A i \in 1..Len(node.children) : Rendered(node.children[i], v.kids[i])
  ELSE v = View("p", "Unknown layout type: " \o TypeText(node), Undefined, <<>>)

\* C12: for any layout tree every node of a known type has a non-null view,
\* every node of another type has the placeholder 'Unknown layout type:
\* {type}', and the children of a Page are rendered once each, in order.
C12_EveryNodeRendered ==
  nPc = "rendered" => Rendered(nLayout, nView)

\* C13: rendering never raises, whatever the children of a Page and the
\* rows resolved for a Table or Chart are.
C13_RenderNeverRaises ==
  nPc = "rendered" => nView.v # "TypeError"

\* the source names carried by the Table and Chart nodes of a tree
RECURSIVE TableChartNames(_)
TableChartNames(node) ==
  IF node.type = "null" THEN {}
  ELSE (IF node.type \in {"Table", "Chart"} /\ node.source # NoSource
          THEN {node.source} ELSE {})
       \cup UNION {TableChartNames(node.children[i]) : i \in 1..Len(node.children)}

\* C16: the sources normalizeDatasets counts are the distinct source names of
\* the Table and Chart nodes of the tree, each once.
C16_SourcesOfTablesAndCharts ==
  nPc \in {"done", "rendered"} =>
    /\ {nSources[i] : i \in 1..Len(nSources)} = TableChartNames(nLayout)
    /\ Len(nSources) = Cardinality(TableChartNames(nLayout))

\* C17: coerceArray returns an array unchanged; for a non-array object the
\* first array among its values in entry order, or else the sequence of its
\* values; for null, undefined and scalars the empty sequence.
C17_CoerceArray ==
  nPc \in {"done", "rendered"} =>
    /\ IsArray(nCoerced)
    /\ IsArray(nFallback) => nCoerced = nFallback
    /\ nFallback.k = "object" =>
         IF \E i \in 1..Len(nFallback.s) : IsArray(nFallback.s[i].s[1])
           THEN \E i \in 1..Len(nFallback.s) :
                  /\ IsArray(nFallback.s[i].s[1])
                  /\ \A j \in 1..(i - 1) : ~IsArray(nFallback.s[j].s[1])
                  /\ nCoerced = nFallback.s[i].s[1]
           ELSE nCoerced = Arr([i \in 1..Len(nFallback.s) |-> nFallback.s[i].s[1]])
    /\ nFallback.k \in {"undefined", "null", "zero", "number"} => nCoerced = Arr(<<>>)

\* C17 witness: an object with two array-valued entries gives the first one.
C17_Witness ==
  /\ nPc = "done"
  /\ nFallback = Obj(<<Entry("a", Arr(<<Row("r3")>>)), Entry("b", Arr(<<Row("r1")>>))>>)
  /\ nCoerced = Arr(<<Row("r3")>>)

\* every Table and Chart view of a node with a source received the entry of
\* that source
RECURSIVE SourceBound(_, _)
SourceBound(node, v) ==
  IF node.type \in {"Table", "Chart"}
    THEN node.source # NoSource => v.data = ObjGet(nResult, node.source)
  ELSE IF node.type = "Page" /\ v.v = "div"
    THEN \A i \in 1..Len(node.children) : SourceBound(node.children[i], v.kids[i])
  ELSE TRUE

\* C20: for every node with a source, resolveData on the mapping returned by
\* normalizeDatasets for the same layout gives that mapping's own entry for
\* the source, and that is what the node's view receives.
C20_ResolveMatchesNormalizer ==
  nPc = "rendered" =>
    /\ \A s \in TreeNames(nLayout) :
         /\ HasOwn(nResult, s)
         /\ resolveData(nResult, s) = ObjGet(nResult, s)
    /\ nView.v # "TypeError" => SourceBound(nLayout, nView)

\* C20 witness: two sources and a bare array: both entries are empty, a
\* "data" entry exists, and the Table of "sales" shows the empty placeholder.
C20_Witness ==
  /\ nPc = "rendered"
  /\ nLayout = Node("Page", NoSource,
                    <<Node("Table", "sales", <<>>), Node("Table", "products", <<>>)>>)
  /\ nResult = Obj(<<Entry("data", Arr(<<Row("r1")>>)), Entry("sales", Arr(<<>>)),
                     Entry("products", Arr(<<>>))>>)
  /\ nView.kids[1] = View("p", "No records found.", Arr(<<>>), <<>>)

(***************************************************************************)
(* Properties of the request lifecycle, checked under Spec.                *)
(***************************************************************************)
\* the normalized mapping of a response body
NormalizedOf(b) ==
  normalizeDatasets(Payloads[b].layout, Payloads[b].datasets, Payloads[b].data)

\* C2: a 'final' event of the stream of a request older than the newest one
\* never changes the displayed layout or datasets.
C2_LateFinalIgnored ==
  [][ (lastEvent'.kind = "final" /\ lastEvent'.req < nreq')
        => (layout' = layout /\ datasets' = datasets) ]_vars

\* C2 witness: the second request has started before the first stream's
\* terminal event, which then arrives on the abandoned stream.
C2_Witness ==
  /\ lastEvent = Event("final", 1)
  /\ nreq = 2
  /\ stream[1] = "closed"
  /\ ~errored[1]
  /\ outcome[1] = "none"

\* C3: at most one fetch is live for the view, counting open event streams
\* and pending single-shot POSTs of all requests.
C3_AtMostOneLiveFetch ==
  Cardinality({r \in Reqs : stream[r] = "open"})
    + Cardinality({r \in Reqs : post[r] = "pending"}) <= 1

\* C4: a request whose stream errors or cannot be opened issues the
\* single-shot POST exactly once, and no other request issues it.
C4_FallbackExactlyOnce ==
  \A r \in Reqs :
    /\ postCount[r] <= 1
    /\ errored[r] <=> postCount[r] = 1

\* C4 witness: the stream of a request was opened, errored, and its POST is
\* pending.
C4_Witness ==
  /\ errored[1]
  /\ stream[1] = "closed"
  /\ postCount[1] = 1
  /\ post[1] = "pending"

\* C5: no step of a request before its result (send, progress, stream error,
\* failed fallback) changes layout or datasets; the failed fallback of a
\* request that never finalized shows the error message and ends loading.
C5_FailureKeepsView ==
  [][ /\ lastEvent'.kind \in {"send", "progress", "error", "postRejected"}
           => (layout' = layout /\ datasets' = datasets)
      /\ lastEvent'.kind = "postRejected"
           => /\ error' = FailedText
              /\ ~loading'
              /\ outcome[lastEvent'.req] = "none" ]_vars

\* C5 witness: a layout is displayed, a request fails twice, the layout is
\* still displayed and the error is shown.
C5_Witness ==
  /\ outcome[1] = "failed"
  /\ lastEvent = Event("postRejected", 1)
  /\ layout = Payloads[1].layout
  /\ datasets = NormalizedOf(1)
  /\ error = FailedText

\* C6: a progress event leaves layout and datasets unchanged; a step of a
\* request changes them only by applying the body of its 'final' event or of
\* its single-shot response, normalized by normalizeDatasets.
C6_OnlyFinalPayloadApplied ==
  [][ /\ lastEvent'.kind = "progress" => (layout' = layout /\ datasets' = datasets)
      /\ (lastEvent'.req # 0 /\ (layout' # layout \/ datasets' # datasets))
           => /\ lastEvent'.kind \in {"final", "postResolved"}
              /\ \E b \in PayloadIds :
                   /\ layout' = Payloads[b].layout
                   /\ datasets' = NormalizedOf(b) ]_vars

\* C6 witness: a 'data' progress line has been logged and nothing is displayed.
C6_Witness ==
  /\ lastEvent = Event("progress", 1)
  /\ \E i \in 1..Len(messages) :
       messages[i].logs = <<Log("data", "1")>>
  /\ layout = NullLayout
  /\ datasets = Obj(<<>>)

\* C7: the displayed layout and datasets always come from the same response
\* (or are both the initial ones).
C7_SwapTogether ==
  \/ layout = NullLayout /\ datasets = Obj(<<>>)
  \/ \E b \in PayloadIds :
       /\ layout = Payloads[b].layout
       /\ datasets = NormalizedOf(b)

\* C7 witness: the view has been replaced by the result of a first request,
\* then by that of a second one.
C7_Witness ==
  /\ outcome[1] = "finalized"
  /\ outcome[2] = "finalized"
  /\ lastEvent = Event("final", 2)
  /\ layout = Payloads[2].layout
  /\ datasets = NormalizedOf(2)

\* C14: an event whose body cannot be parsed (a progress event that logs
\* nothing, a 'final' event that finalizes nothing) changes nothing that is
\* displayed, shows no error, and leaves its stream open for the events
\* delivered after it.
C14_UnparseableEventDropped ==
  [][ \A r \in Reqs :
        ( /\ stream[r] = "open"
          /\ lastEvent'.req = r
          /\ \/ lastEvent'.kind = "progress" /\ messages' = messages
             \/ lastEvent'.kind = "final" /\ outcome'[r] = "none" )
        => /\ view' = view
           /\ stream'[r] = "open" ]_vars

\* the messages a send appended (the stored history carries timestamp 0)
SentMessages == {i \in 1..Len(messages) : messages[i].timestamp # 0}

\* C15: a startup response that arrives after the user has sent a message
\* keeps the messages appended by the send, and keeps the layout and datasets
\* that a request has finalized.
C15_StartupNeverOverwrites ==
  [][ (lastEvent'.kind \in {"history", "lastView"} /\ nreq > 0) =>
        /\ \A i \in SentMessages :
             \E j \in 1..Len(messages') : messages'[j] = messages[i]
        /\ (\E r \in Reqs : outcome[r] = "finalized")
             => (layout' = layout /\ datasets' = datasets) ]_vars

\* C18: while loading is true some fetch of a request is still live (an open
\* stream or a pending POST) whose end returns loading to false; a state with
\* loading true and no live fetch never leaves loading.
C18_LoadingHasLiveFetch ==
  loading => \E r \in Reqs : stream[r] = "open" \/ post[r] = "pending"

\* C19: a step of a request older than the newest one changes neither
\* layout, datasets, loading, the error message nor the newest request's
\* assistant message; a step of a request writes only to messages created
\* by that request.
C19_OlderRequestIgnored ==
  [][ (lastEvent'.req # 0 /\ lastEvent'.kind # "send") =>
        /\ lastEvent'.req < nreq =>
             /\ layout' = layout /\ datasets' = datasets
             /\ loading' = loading /\ error' = error
        /\ \A i \in 1..Len(messages) :
             messages'[i] # messages[i] => messages[i].timestamp = lastEvent'.req ]_vars
====
